---- MODULE Spec2Model ----
(***************************************************************************)
(* Model of main.py: the template catalog (TEMPLATES), the outline         *)
(* generator (generate_detailed_content, generate_slide_details), the      *)
(* exporter (export_to_formats) and the control flow of main().            *)
(*                                                                         *)
(* Python str values are TLA+ strings; Len, \o and SubSeq act on them      *)
(* character by character.                                                 *)
(***************************************************************************)
EXTENDS Integers, Sequences, FiniteSets, TLC

VARIABLES
    pc,             \* position of the modelled caller / of main()
    topic,          \* main.py:127, argument `topic`
    template_type,  \* main.py:129, argument `template_type`
    num_slides,     \* main.py:135, argument `num_slides`
    generate_btn,   \* main.py:141
    slides,         \* the outline: the list returned at main.py:72, edited at :184
    i,              \* loop index of main.py:176 (0-based, as in the code)
    slide_title,    \* argument of generate_slide_details
    slide_content,  \* value returned by generate_slide_details
    json_data,      \* <<>> before any export, else <<record of main.py:94-100>>
    text_content,   \* <<>> before any export, else <<text of main.py:103-109>>
    prev_json,      \* the result of the export call before the last one
    prev_text,
    dirty,          \* a slide's content was changed since the last export call
    later,          \* the clock has advanced since the last export call
    error,          \* st.error of main.py:218 was shown in this run
    now             \* the wall clock read by datetime.datetime.now()

vars == <<pc, topic, template_type, num_slides, generate_btn, slides, i,
          slide_title, slide_content, json_data, text_content,
          prev_json, prev_text, dirty, later, error, now>>

---------------------------------------------------------------------------
(* Bounds of the model *)

\* the clock of SpecExport takes the values 0..MaxTime
MaxTime == 2
\* the clock of Spec takes the values 0..MaxRunTime
MaxRunTime == 1
\* at most MaxEdits text areas of one run hold text typed by the user
MaxEdits == 1
\* direct calls of generate_detailed_content use counts -2..MaxCount
MaxCount == 12
\* the outlines handed to direct calls of export_to_formats have
\* 1..MaxOutline slides
MaxOutline == 2

---------------------------------------------------------------------------
(* Strings *)

Min(a, b) == IF a <= b THEN a ELSE b

\* s[p] of Python, 1-based
CharAt(s, p) == SubSeq(s, p, p)

\* c * n
RECURSIVE Repeat(_, _)
Repeat(c, n) == IF n <= 0 THEN "" ELSE c \o Repeat(c, n - 1)

Lowers == "abcdefghijklmnopqrstuvwxyz"
Uppers == "ABCDEFGHIJKLMNOPQRSTUVWXYZ"
Digits == "0123456789"

\* position of character c in alphabet, 0 when absent
RECURSIVE PosIn(_, _, _)
PosIn(c, alphabet, p) ==
    IF p > Len(alphabet) THEN 0
    ELSE IF CharAt(alphabet, p) = c THEN p
    ELSE PosIn(c, alphabet, p + 1)

UpperChar(c) ==
    LET p == PosIn(c, Lowers, 1) IN IF p = 0 THEN c ELSE CharAt(Uppers, p)

\* str.upper()
RECURSIVE Upper(_)
Upper(s) ==
    IF Len(s) = 0 THEN ""
    ELSE UpperChar(CharAt(s, 1)) \o Upper(SubSeq(s, 2, Len(s)))

\* str(n) / f"{n}" of an integer
RECURSIVE StrNat(_)
StrNat(n) ==
    IF n < 10 THEN CharAt(Digits, n + 1)
    ELSE StrNat(n \div 10) \o CharAt(Digits, (n % 10) + 1)

Str(n) == IF n < 0 THEN "-" \o StrNat(0 - n) ELSE StrNat(n)

\* sub in s
Contains(s, sub) ==
    \E p \in 1..(Len(s) - Len(sub) + 1) : SubSeq(s, p, p + Len(sub) - 1) = sub

\* s.find(sub, p): least position >= p where sub starts, 0 when there is none
RECURSIVE Find(_, _, _)
Find(s, sub, p) ==
    IF p + Len(sub) - 1 > Len(s) THEN 0
    ELSE IF SubSeq(s, p, p + Len(sub) - 1) = sub THEN p
    ELSE Find(s, sub, p + 1)

---------------------------------------------------------------------------
(* Template catalog *)

TEMPLATES ==
    [business |-> <<"Executive Summary", "Problem Statement", "Market Analysis",
                    "Solution Overview", "Business Model", "Financial Projections",
                    "Implementation Timeline", "Team & Resources",
                    "Risk Assessment", "Call to Action">>,
     technical |-> <<"Introduction & Overview", "Problem Definition",
                     "Technical Requirements", "Architecture & Design",
                     "Implementation Details", "Testing & Validation",
                     "Performance Analysis", "Security Considerations",
                     "Future Enhancements", "Conclusion">>,
     educational |-> <<"Learning Objectives", "Background & Context", "Key Concepts",
                       "Detailed Explanation", "Real-world Examples",
                       "Interactive Activity", "Assessment & Review",
                       "Additional Resources", "Q&A Session",
                       "Summary & Next Steps">>,
     research |-> <<"Research Question", "Literature Review", "Methodology",
                    "Data Collection", "Results & Analysis", "Discussion",
                    "Limitations", "Implications", "Future Research",
                    "Conclusions">>]

KnownCategories == DOMAIN TEMPLATES

TemplatesGetTechnicalDefault(key) ==
    IF key \in DOMAIN TEMPLATES THEN TEMPLATES[key] ELSE TEMPLATES["technical"]

\* TEMPLATES.get(template_type, TEMPLATES["business"])
TemplatesGet(key) ==
    IF key \in DOMAIN TEMPLATES THEN TEMPLATES[key] ELSE TEMPLATES["business"]

---------------------------------------------------------------------------
(* Outline generator *)

content_map(t) ==
    [k \in {"Executive Summary", "Problem Statement", "Market Analysis",
            "Solution Overview", "Introduction & Overview", "Problem Definition",
            "Learning Objectives", "Research Question", "Background & Context",
            "Literature Review"} |->
        CASE k = "Executive Summary" ->
                "Brief overview of " \o t \o " and its key benefits for stakeholders"
          [] k = "Problem Statement" ->
                "Current challenges and pain points related to " \o t
          [] k = "Market Analysis" ->
                "Market size, trends, and opportunities in the " \o t \o " space"
          [] k = "Solution Overview" ->
                "How " \o t \o " addresses the identified problems"
          [] k = "Introduction & Overview" ->
                "Welcome to our presentation on " \o t \o " - setting the stage"
          [] k = "Problem Definition" ->
                "Technical challenges and requirements for " \o t
          [] k = "Learning Objectives" ->
                "What you will learn about " \o t \o " by the end of this session"
          [] k = "Research Question" ->
                "Key research questions driving our study of " \o t
          [] k = "Background & Context" ->
                "Historical background and current state of " \o t
          [] k = "Literature Review" ->
                "Previous research and findings related to " \o t]

SlideDetailsUpperTopic(t, title, ttype) ==
    IF title \in DOMAIN content_map(Upper(t))
    THEN content_map(Upper(t))[title]
    ELSE "Detailed information about " \o title \o " in the context of " \o Upper(t)

\* content_map.get(slide_title, f"Detailed information about ...")
generate_slide_details(t, title, ttype) ==
    IF title \in DOMAIN content_map(t)
    THEN content_map(t)[title]
    ELSE "Detailed information about " \o title \o " in the context of " \o t

\* len(range(n))
RangeLen(n) == IF n > 0 THEN n ELSE 0

GenerateNoTruncation(t, ttype, n) ==
    LET template == TemplatesGet(ttype)
    IN  [j \in 1..RangeLen(n) |->
            LET slide_title_j == template[((j - 1) % Len(template)) + 1]
            IN  [title |-> "Slide " \o Str(j) \o ": " \o slide_title_j,
                 content |-> generate_slide_details(t, slide_title_j, ttype)]]

GenerateZeroBased(t, ttype, n) ==
    LET template == TemplatesGet(ttype)
    IN  [j \in 1..RangeLen(Min(n, Len(template))) |->
            [title |-> "Slide " \o Str(j - 1) \o ": " \o template[j],
             content |-> generate_slide_details(t, template[j], ttype)]]

\* The loop of main.py:64-70; the code's i is j - 1.
generate_detailed_content(t, ttype, n) ==
    LET template == TemplatesGet(ttype)
    IN  [j \in 1..RangeLen(Min(n, Len(template))) |->
            [title |-> "Slide " \o Str((j - 1) + 1) \o ": " \o template[j],
             content |-> generate_slide_details(t, template[j], ttype)]]


---------------------------------------------------------------------------
(* Exporter *)

\* datetime.isoformat() of the clock value c, counted in seconds from
\* 2024-01-01T00:00:00 (c < 60)
IsoFormat(c) ==
    "2024-01-01T00:00:" \o (IF c < 10 THEN "0" \o Str(c) ELSE Str(c))

\* underline as long as the title without its "Slide N: " prefix
RECURSIVE TextBlocksShortUnderline(_, _)
TextBlocksShortUnderline(s, k) ==
    IF k > Len(s) THEN ""
    ELSE s[k].title \o "\n"
         \o Repeat("-", Len(s[k].title) - Len("Slide N: ")) \o "\n"
         \o s[k].content \o "\n\n"
         \o TextBlocksShortUnderline(s, k + 1)

\* The loop of main.py:106-109 over s[k..]
RECURSIVE TextBlocks(_, _)
TextBlocks(s, k) ==
    IF k > Len(s) THEN ""
    ELSE s[k].title \o "\n"
         \o Repeat("-", Len(s[k].title)) \o "\n"
         \o s[k].content \o "\n\n"
         \o TextBlocks(s, k + 1)

\* text rendering whose loop stops one slide early
ExportTextDropsLast(s, t, clock) ==
    [json_data |-> [presentation |->
                       [topic |-> t, created |-> IsoFormat(clock), slides |-> s]],
     text_content |-> "PRESENTATION: " \o Upper(t) \o "\n"
                      \o Repeat("=", 50) \o "\n\n"
                      \o TextBlocks(SubSeq(s, 1, Len(s) - 1), 1)]

\* structured record that carries the upper-cased topic of the text header
ExportJsonUpperTopic(s, t, clock) ==
    [json_data |-> [presentation |->
                       [topic |-> Upper(t), created |-> IsoFormat(clock), slides |-> s]],
     text_content |-> "PRESENTATION: " \o Upper(t) \o "\n"
                      \o Repeat("=", 50) \o "\n\n"
                      \o TextBlocks(s, 1)]

\* timestamp taken when the module was loaded instead of at the call
ExportStampsStart(s, t, clock) ==
    [json_data |-> [presentation |->
                       [topic |-> t, created |-> IsoFormat(0), slides |-> s]],
     text_content |-> "PRESENTATION: " \o Upper(t) \o "\n"
                      \o Repeat("=", 50) \o "\n\n"
                      \o TextBlocks(s, 1)]

\* Returns the pair (json_data, text_content) as a record; `created` is
\* the clock's value at the call.
export_to_formats(s, t, clock) ==
    [json_data |-> [presentation |->
                       [topic |-> t, created |-> IsoFormat(clock), slides |-> s]],
     text_content |-> "PRESENTATION: " \o Upper(t) \o "\n"
                      \o Repeat("=", 50) \o "\n\n"
                      \o TextBlocks(s, 1)]

---------------------------------------------------------------------------
(* Inputs *)

Topics == {"", "Ai", "m l"}
UnknownCategories == {"unknown_category", "Business"}
AllCategories == KnownCategories \cup UnknownCategories
Counts == (-2)..MaxCount
TitleInputs == {"Executive Summary", "Literature Review", "Business Model",
                "Conclusion", "My Title", ""}

---------------------------------------------------------------------------
(* SpecGen: direct calls of the two generator functions, arguments drawn    *)
(* from the input sets.                                                     *)

InitGen ==
    /\ pc = "ready"
    /\ topic \in Topics
    /\ template_type \in AllCategories
    /\ num_slides \in Counts
    /\ slide_title \in TitleInputs
    /\ generate_btn = FALSE
    /\ slides = <<>>
    /\ i = 0
    /\ slide_content = ""
    /\ json_data = <<>>
    /\ text_content = <<>>
    /\ prev_json = <<>>
    /\ prev_text = <<>>
    /\ dirty = FALSE
    /\ later = FALSE
    /\ error = FALSE
    /\ now = 0

CallGenerate ==
    /\ pc = "ready"
    /\ slides' = generate_detailed_content(topic, template_type, num_slides)
    /\ pc' = "generated"
    /\ UNCHANGED <<topic, template_type, num_slides, generate_btn, i, slide_title,
                   slide_content, json_data, text_content, prev_json, prev_text,
                   dirty, later, error, now>>

CallSlideDetails ==
    /\ pc = "ready"
    /\ slide_content' = generate_slide_details(topic, slide_title, template_type)
    /\ pc' = "detailed"
    /\ UNCHANGED <<topic, template_type, num_slides, generate_btn, slides, i,
                   slide_title, json_data, text_content, prev_json, prev_text,
                   dirty, later, error, now>>

NextGen == CallGenerate \/ CallSlideDetails

SpecGen == InitGen /\ [][NextGen]_vars

---------------------------------------------------------------------------
(* Properties of the generator *)

\* decimal numerals, written out
Numeral == <<"1", "2", "3", "4", "5", "6", "7", "8", "9", "10", "11", "12", "13">>

\* C1: for a known category the returned outline has exactly
\* min(k, number of template titles) slides when k >= 0 and none when k <= 0,
\* so never more than the template has titles.
C1_OutlineLength ==
    (pc = "generated" /\ template_type \in KnownCategories) =>
        /\ num_slides >= 0 =>
              Len(slides) = Min(num_slides, Len(TEMPLATES[template_type]))
        /\ num_slides <= 0 => slides = <<>>
        /\ Len(slides) <= Len(TEMPLATES[template_type])

C1_Witness ==
    /\ pc = "generated"
    /\ template_type = "research"
    /\ num_slides = 11
    /\ Len(slides) = 10

\* C2: the slide at 0-based position p is titled "Slide {p+1}: {titles[p]}",
\* titles being the resolved category's template list.
C2_Titles ==
    pc = "generated" =>
        LET titles == IF template_type \in KnownCategories
                      THEN TEMPLATES[template_type] ELSE TEMPLATES["business"]
        IN  \A p \in 0..(Len(slides) - 1) :
                slides[p + 1].title = "Slide " \o Numeral[p + 1] \o ": " \o titles[p + 1]

C2_Witness ==
    /\ pc = "generated"
    /\ template_type = "educational"
    /\ Len(slides) = 10
    /\ slides[10].title = "Slide 10: Summary & Next Steps"

\* C3: for a category that is not a known key the call returns the outline
\* of the default category (business) for the same topic and count.
C3_UnknownCategory ==
    (pc = "generated" /\ template_type \notin KnownCategories) =>
        slides = generate_detailed_content(topic, "business", num_slides)

C3_Witness ==
    /\ pc = "generated"
    /\ template_type = "unknown_category"
    /\ num_slides = 2
    /\ Len(slides) = 2
    /\ slides[2].title = "Slide 2: Problem Statement"

CannedTitles ==
    {"Executive Summary", "Problem Statement", "Market Analysis",
     "Solution Overview", "Introduction & Overview", "Problem Definition",
     "Learning Objectives", "Research Question", "Background & Context",
     "Literature Review"}

\* C5: for a canned title the result contains the topic verbatim; for any
\* other title it is the fallback sentence; the category argument has no
\* influence on the result.
C5_SlideDetails ==
    pc = "detailed" =>
        /\ slide_title \in CannedTitles =>
              /\ Contains(slide_content, topic)
              /\ slide_content # "Detailed information about " \o slide_title
                                    \o " in the context of " \o topic
        /\ slide_title \notin CannedTitles =>
              slide_content = "Detailed information about " \o slide_title
                                 \o " in the context of " \o topic
        /\ \A c \in AllCategories :
              slide_content = generate_slide_details(topic, slide_title, c)

C5_Witness ==
    /\ pc = "detailed"
    /\ slide_title = "Literature Review"
    /\ topic = "Ai"
    /\ slide_content = "Previous research and findings related to Ai"

---------------------------------------------------------------------------
(* Spec: the runs of main().  Streamlit runs main() from top to bottom on   *)
(* every widget interaction; the widgets' values are the run's inputs.      *)

\* what st.text_input can return (a str, "" when nothing was typed)
UiTopics == {"", " ", "Ai"}
\* the options of st.selectbox, main.py:131
UiCategories == {"business", "technical", "educational", "research"}
\* st.slider("Number of slides:", 3, 15, 8)
SliderMin == 3
SliderMax == 15
SliderDefault == 8
\* the slider positions of the model: both ends and the default; SliderMax
\* is above the length of every template
SliderValues == {SliderMin, SliderDefault, SliderMax}
\* text typed into a text area by the user
EditTexts == {"", "two\nlines"}

GenerateIgnoresTopic(btn, t) == btn

\* main.py:144  `if generate_btn and topic:`
ShouldGenerate(btn, t) == btn /\ t # ""

\* main.py:217  `elif generate_btn and not topic:`
ShouldReportError(btn, t) == btn /\ t = ""

SetContentOfAll(s, idx, new_content) ==
    [j \in 1..Len(s) |-> [s[j] EXCEPT !.content = new_content]]

\* main.py:184  slides[i]['content'] = new_content   (idx is 0-based)
SetContent(s, idx, new_content) ==
    [s EXCEPT ![idx + 1].content = new_content]

\* number of the first n slides whose content is not the generated one
NumEdited(s, n) ==
    LET template == TemplatesGet(template_type)
    IN  Cardinality({j \in 1..n :
            s[j].content # generate_slide_details(topic, template[j], template_type)})

\* the page load: a run with the widgets' default values
Init ==
    /\ pc = "rendered"
    /\ topic = ""
    /\ template_type = "business"
    /\ num_slides = SliderDefault
    /\ generate_btn = FALSE
    /\ slides = <<>>
    /\ i = 0
    /\ slide_title = ""
    /\ slide_content = ""
    /\ json_data = <<>>
    /\ text_content = <<>>
    /\ prev_json = <<>>
    /\ prev_text = <<>>
    /\ dirty = FALSE
    /\ later = FALSE
    /\ error = FALSE
    /\ now = 0

\* A widget interaction makes Streamlit run main() again from line 113: the
\* locals and the output of the previous run are gone.
Rerun ==
    /\ pc = "rendered"
    /\ pc' = "start"
    /\ topic' = ""
    /\ template_type' = "business"
    /\ num_slides' = SliderDefault
    /\ generate_btn' = FALSE
    /\ slides' = <<>>
    /\ json_data' = <<>>
    /\ text_content' = <<>>
    /\ error' = FALSE
    /\ i' = 0
    /\ UNCHANGED <<slide_title, slide_content, prev_json, prev_text, dirty, later, now>>

\* main.py:127-141: the run reads the widgets
ReadWidgets(t, c, n, b) ==
    /\ pc = "start"
    /\ topic' = t
    /\ template_type' = c
    /\ num_slides' = n
    /\ generate_btn' = b
    /\ UNCHANGED <<i, json_data, text_content, slide_title, slide_content,
                   prev_json, prev_text, dirty, later, now>>

\* main.py:144-146
RunGenerate ==
    \E t \in UiTopics, c \in UiCategories, n \in SliderValues, b \in BOOLEAN :
        /\ ReadWidgets(t, c, n, b)
        /\ ShouldGenerate(b, t)
        /\ slides' = generate_detailed_content(t, c, n)
        /\ error' = FALSE
        /\ pc' = "tab2"

\* main.py:217-218
RunValidationError ==
    \E t \in UiTopics, c \in UiCategories, n \in SliderValues, b \in BOOLEAN :
        /\ ReadWidgets(t, c, n, b)
        /\ ~ShouldGenerate(b, t)
        /\ ShouldReportError(b, t)
        /\ slides' = <<>>
        /\ error' = TRUE
        /\ pc' = "rendered"

\* neither branch of main.py:144/217: the button was not pressed
RunNoButton ==
    \E t \in UiTopics, c \in UiCategories, n \in SliderValues, b \in BOOLEAN :
        /\ ReadWidgets(t, c, n, b)
        /\ ~ShouldGenerate(b, t)
        /\ ~ShouldReportError(b, t)
        /\ slides' = <<>>
        /\ error' = FALSE
        /\ pc' = "rendered"

\* main.py:176-184, one iteration: st.text_area returns the slide's content
\* or what the user typed, and the slide's content is set to it.
EditSlide ==
    /\ pc = "tab2"
    /\ i < Len(slides)
    /\ \E new_content \in {slides[i + 1].content} \cup EditTexts :
          /\ slides' = SetContent(slides, i, new_content)
          /\ NumEdited(slides', i + 1) <= MaxEdits
    /\ i' = i + 1
    /\ UNCHANGED <<pc, topic, template_type, num_slides, generate_btn, slide_title,
                   slide_content, json_data, text_content, prev_json, prev_text,
                   dirty, later, error, now>>

\* main.py:186-190, after the loop of tab2
ExportTab ==
    /\ pc = "tab2"
    /\ i = Len(slides)
    /\ LET r == export_to_formats(slides, topic, now)
       IN  /\ json_data' = <<r.json_data>>
           /\ text_content' = <<r.text_content>>
    /\ pc' = "rendered"
    /\ UNCHANGED <<topic, template_type, num_slides, generate_btn, slides, i,
                   slide_title, slide_content, prev_json, prev_text, dirty, later,
                   error, now>>

\* The wall clock advances.  main() reads it once, at main.py:97, so its
\* advance is taken between two runs.
Tick ==
    /\ pc = "start"
    /\ now < MaxRunTime
    /\ now' = now + 1
    /\ UNCHANGED <<pc, topic, template_type, num_slides, generate_btn, slides, i,
                   slide_title, slide_content, json_data, text_content, prev_json,
                   prev_text, dirty, later, error>>

Next ==
    \/ Rerun
    \/ RunGenerate
    \/ RunValidationError
    \/ RunNoButton
    \/ EditSlide
    \/ ExportTab
    \/ Tick

Spec == Init /\ [][Next]_vars

---------------------------------------------------------------------------
(* Reading the text export back *)

\* the blocks of text from position q on: a title line (ending at te), an
\* underline (ending at ue), and the content up to the blank line (at ce)
\* that ends the block
RECURSIVE ReadBlocks(_, _)
Incomplete(text, q) ==
    <<[title |-> SubSeq(text, q, Len(text)), underline |-> "", content |-> "",
       complete |-> FALSE]>>

BlockContent(text, q, te, ue, ce) ==
    IF ce = 0 THEN Incomplete(text, q)
    ELSE <<[title |-> SubSeq(text, q, te - 1),
            underline |-> SubSeq(text, te + 1, ue - 1),
            content |-> SubSeq(text, ue + 1, ce - 1),
            complete |-> TRUE]>>
         \o ReadBlocks(text, ce + 2)

BlockUnderline(text, q, te, ue) ==
    IF ue = 0 THEN Incomplete(text, q)
    ELSE BlockContent(text, q, te, ue, Find(text, "\n\n", ue + 1))

BlockTitle(text, q, te) ==
    IF te = 0 THEN Incomplete(text, q)
    ELSE BlockUnderline(text, q, te, Find(text, "\n", te + 1))

ReadBlocks(text, q) ==
    IF q > Len(text) THEN <<>> ELSE BlockTitle(text, q, Find(text, "\n", q))

ReadLines(text, he, re) ==
    [header |-> SubSeq(text, 1, he - 1),
     rule |-> SubSeq(text, he + 1, re - 1),
     third |-> CharAt(text, re + 1),
     blocks |-> ReadBlocks(text, re + 2)]

ReadHeader(text, he) == ReadLines(text, he, Find(text, "\n", he + 1))

\* the header line, the rule under it, the character after the rule's line
\* and the blocks of a text export
ReadText(text) == ReadHeader(text, Find(text, "\n", 1))

OnlyDashes(u) == \A p \in 1..Len(u) : CharAt(u, p) = "-"

\* the topics of UiTopics in upper case, written out
UpperCased == ("" :> "") @@ (" " :> " ") @@ ("Ai" :> "AI")

Exported == pc = "rendered" /\ json_data # <<>> /\ text_content # <<>>

---------------------------------------------------------------------------
(* Properties of main() *)

\* C4: a run with the button pressed and an empty topic shows the validation
\* error and has no outline and no export; a run with the button pressed and
\* a non-empty topic has an outline (and, once rendered, an export) and shows
\* no error; the error is shown in no other case.
C4_Validation ==
    /\ error <=> (generate_btn /\ topic = "")
    /\ (generate_btn /\ topic = "") =>
          /\ pc = "rendered"
          /\ slides = <<>>
          /\ json_data = <<>>
          /\ text_content = <<>>
    /\ (generate_btn /\ topic # "") =>
          /\ ~error
          /\ Len(slides) = Min(num_slides, Len(TEMPLATES[template_type]))
          /\ Len(slides) >= SliderMin
          /\ pc = "rendered" => Exported

C4_Witness ==
    /\ pc = "rendered"
    /\ generate_btn
    /\ topic = ""
    /\ num_slides = SliderMax
    /\ error

\* C6: the slides of the structured record are the outline that was
\* exported, slide by slide, and its topic is the given topic.
C6_RoundTrip ==
    Exported =>
        \A record \in {json_data[1].presentation} :
            /\ Len(record.slides) = Len(slides)
            /\ \A k \in 1..Len(slides) :
                  /\ record.slides[k].title = slides[k].title
                  /\ record.slides[k].content = slides[k].content
            /\ record.topic = topic

C6_Witness ==
    /\ Exported
    /\ topic = "Ai"
    /\ Len(json_data[1].presentation.slides) = 10
    /\ json_data[1].presentation.slides[3].content = "two\nlines"

\* C7: the export made after the edits of a run carries, in the structured
\* record and in the text, every slide of the current outline in order, with
\* the content the slide has after the edits.
C7_ExportIsCurrent ==
    Exported =>
        \A record \in {json_data[1].presentation},
           blocks \in {ReadText(text_content[1]).blocks} :
            /\ record.slides = slides
            /\ Len(blocks) = Len(slides)
            /\ \A k \in 1..Len(slides) :
                  /\ blocks[k].complete
                  /\ blocks[k].title = record.slides[k].title
                  /\ blocks[k].content = slides[k].content

C7_Witness ==
    /\ Exported
    /\ Len(slides) = 8
    /\ slides[8].content = ""
    /\ ReadText(text_content[1]).blocks[8].content = ""
    /\ ReadText(text_content[1]).blocks[8].title = "Slide 8: Team & Resources"

\* C9: the text starts with "PRESENTATION: " and the upper-cased topic, then
\* a line of 50 "=", then an empty line; every slide follows in order as its
\* title, a line of "-" as long as the title, its content and an empty line.
C9_TextLayout ==
    Exported =>
        \A r \in {ReadText(text_content[1])} :
            /\ r.header = "PRESENTATION: " \o UpperCased[topic]
            /\ r.rule = "=================================================="
            /\ r.third = "\n"
            /\ Len(r.blocks) = Len(slides)
            /\ \A k \in 1..Len(slides) :
                  /\ r.blocks[k].complete
                  /\ r.blocks[k].title = slides[k].title
                  /\ OnlyDashes(r.blocks[k].underline)
                  /\ Len(r.blocks[k].underline) = Len(slides[k].title)
                  /\ r.blocks[k].content = slides[k].content

C9_Witness ==
    /\ Exported
    /\ topic = "Ai"
    /\ Len(slides) = 10
    /\ ReadText(text_content[1]).header = "PRESENTATION: AI"
    /\ ReadText(text_content[1]).blocks[10].title = "Slide 10: Conclusion"
    /\ ReadText(text_content[1]).blocks[10].underline = "--------------------"

\* C10: a step of the edit loop changes at most the content of slide i; the
\* length, the order and every title stay those of the generated outline,
\* and the export step leaves the outline as it is.
C10_EditFrame ==
    [][pc = "tab2" =>
        /\ Len(slides') = Len(slides)
        /\ \A j \in 1..Len(slides) :
              /\ slides'[j].title = slides[j].title
              /\ j # i + 1 => slides'[j].content = slides[j].content
        /\ \A j \in 1..Len(slides) :
              slides'[j].title =
                  generate_detailed_content(topic, template_type, num_slides)[j].title
        /\ Len(slides') =
              Len(generate_detailed_content(topic, template_type, num_slides))]_vars

C10_Witness ==
    /\ pc = "tab2"
    /\ i = 3
    /\ Len(slides) = 3
    /\ slides[2].content = "two\nlines"
    /\ slides[1].content = "Brief overview of Ai and its key benefits for stakeholders"
    /\ slides[3].title = "Slide 3: Market Analysis"

---------------------------------------------------------------------------
(* SpecExport: a caller that holds one outline, changes slide contents and  *)
(* calls export_to_formats repeatedly, keeping the results of the last two  *)
(* calls.  The record returned by export_to_formats holds the caller's list *)
(* itself (main.py:98), so a later change of a slide shows in the records   *)
(* already returned; the text is a string built at the call.                *)

ExportTopics == {"", "Ai"}
ExportCategories == {"business", "research"}
ApiEditTexts == {"new text"}

InitExport ==
    /\ pc = "holding"
    /\ topic \in ExportTopics
    /\ template_type \in ExportCategories
    /\ num_slides \in 1..MaxOutline
    /\ slides = generate_detailed_content(topic, template_type, num_slides)
    /\ generate_btn = FALSE
    /\ i = 0
    /\ slide_title = ""
    /\ slide_content = ""
    /\ json_data = <<>>
    /\ text_content = <<>>
    /\ prev_json = <<>>
    /\ prev_text = <<>>
    /\ dirty = FALSE
    /\ later = FALSE
    /\ error = FALSE
    /\ now = 0

\* the record j with its slides list after the list's change to s
Aliased(j, s) ==
    IF j = <<>> THEN <<>> ELSE <<[j[1] EXCEPT !.presentation.slides = s]>>

\* slides[k]['content'] = text, by the caller
ApiEdit ==
    /\ pc = "holding"
    /\ \E k \in 0..(Len(slides) - 1), text \in ApiEditTexts :
          /\ slides[k + 1].content # text
          /\ slides' = SetContent(slides, k, text)
    /\ json_data' = Aliased(json_data, slides')
    /\ prev_json' = Aliased(prev_json, slides')
    /\ dirty' = TRUE
    /\ UNCHANGED <<pc, topic, template_type, num_slides, generate_btn, i,
                   slide_title, slide_content, text_content, prev_text, later,
                   error, now>>

\* json_data, text_content = export_to_formats(slides, topic)
ApiExport ==
    /\ pc = "holding"
    /\ LET r == export_to_formats(slides, topic, now)
       IN  /\ json_data' = <<r.json_data>>
           /\ text_content' = <<r.text_content>>
    /\ prev_json' = json_data
    /\ prev_text' = text_content
    /\ dirty' = FALSE
    /\ later' = FALSE
    /\ UNCHANGED <<pc, topic, template_type, num_slides, generate_btn, slides, i,
                   slide_title, slide_content, error, now>>

\* the wall clock advances
ApiTick ==
    /\ pc = "holding"
    /\ now < MaxTime
    /\ now' = now + 1
    /\ later' = TRUE
    /\ UNCHANGED <<pc, topic, template_type, num_slides, generate_btn, slides, i,
                   slide_title, slide_content, json_data, text_content, prev_json,
                   prev_text, dirty, error>>

NextExport == ApiEdit \/ ApiExport \/ ApiTick

SpecExport == InitExport /\ [][NextExport]_vars

\* isoformat of the clock values, written out
Stamp == <<"2024-01-01T00:00:00", "2024-01-01T00:00:01", "2024-01-01T00:00:02",
           "2024-01-01T00:00:03", "2024-01-01T00:00:04">>

\* C8: every export call stamps its record with the clock's value at the
\* call; a second call made after the clock has advanced and with no change
\* of a slide since the first call gives another timestamp, the same slides
\* and the same text.
C8_ReExport ==
    [][ApiExport =>
        /\ json_data'[1].presentation.created = Stamp[now + 1]
        /\ (json_data # <<>> /\ ~dirty /\ later) =>
              /\ json_data'[1].presentation.created # json_data[1].presentation.created
              /\ json_data'[1].presentation.slides = json_data[1].presentation.slides
              /\ text_content' = text_content]_vars

C8_Witness ==
    /\ pc = "holding"
    /\ prev_json # <<>>
    /\ json_data # <<>>
    /\ prev_json[1].presentation.created = "2024-01-01T00:00:01"
    /\ json_data[1].presentation.created = "2024-01-01T00:00:02"
    /\ prev_text = text_content
    /\ slides[1].content = "new text"
    /\ ~dirty

====
